---- MODULE Spec2Model ----
(***************************************************************************)
(* Model of mini-kafka's server (src/kafka/server.go): the accept loop of  *)
(* Server.Start, ForceShutdown/Shutdown, the once-close guards and the     *)
(* per-connection pipeline of handleConnection with its goroutines:        *)
(*   reader      createReadRequestChan  (blocking encoders.ReadRequest)    *)
(*   read stage  createRequestChan      (select on idle timeout / frames)  *)
(*   processing  createResponseChan     (one handler goroutine a request)  *)
(*   write stage sendResponses                                             *)
(* All channels of the code are unbuffered: a send and its receive are one *)
(* rendezvous step of the model.                                           *)
(***************************************************************************)
EXTENDS Integers, Sequences, FiniteSets

\* ---------------------------------------------------------------- bounds
\* Spec, one connection's pipeline: frames its peer sends, calls of
\* ForceShutdown/Shutdown during the run
MaxReq == 2
PipeShutdowns == 1
\* SpecServer, the same with repeated shutdowns: calls of
\* ForceShutdown/Shutdown during the run
MaxShutdowns == 2
\* config.ConnIdleTimeout, in clock ticks
IdleTicks == 2
\* SpecIso, connections side by side: the connections accepted and the frames
\* each peer sends
IsoConns == 2
IsoReq == 1

VARIABLES
    lim,        \* the run's limits: [conns, reqs, shuts], never changed
    \* ---- Server
    lnState,    \* s.listener: "unset" (nil), "open", "closed" (underlying socket)
    lnOnce,     \* onceCloseListener: [done, err]
    lnCloses,   \* number of executions of the underlying Listener.Close
    lnRets,     \* what the calls of s.listener.Close() returned, in order
    startPc,    \* Start: "init", "accept", "register", "returned", "bindfail"
    acc,        \* the connection Accept returned and Start has not registered yet (0: none)
    accRes,     \* what the last s.listener.Accept() returned: "none", "conn", "err", "closed"
    srvCtx,     \* ctx of Start is cancelled
    conns,      \* s.conns, the connection registry
    fsPc,       \* ForceShutdown: "idle", "loop"
    fsSnap,     \* s.conns as it was when the running call began its range
    fsErrs,     \* a conn.Close() of the last call's range returned an error (it is logged)
    fsPending,  \* the responses waiting to be written when the running call began
    fsRet,      \* errors returned by the finished calls, in order
    crashed,    \* the process died of a panic
    \* ---- once-close guard of each accepted socket
    sockOpen,   \* the underlying socket is open
    sockOnce,   \* onceCloseConn: [done, err]
    sockCloses, \* number of executions of the underlying Conn.Close
    sockRets,   \* what the calls of conn.Close() returned, in order
    \* ---- pipeline of each connection
    hcPc,       \* handleConnection: "none", "select", "delete", "done"
    hcRet,      \* its returned error: "none" (not returned), "nil", or a cause
    ctxCause,   \* connCtx: "none" (not cancelled by cancelCtx) or its cause
    rdPc,       \* reader goroutine: "none", "read", "send", "done"
    rdRes,      \* the result it holds: "req", "eof", "closed", "bad"
    nread,      \* frames decoded so far (the sequence number of the last request)
    rsPc,       \* read stage: "none", "select", "fwd", "senderr", "done"
    rsReq,      \* request the read stage is forwarding
    rsExit,     \* why the read stage returned: "none", "timeout", "cancel", "eof", "error"
    elapsed,    \* ticks since the read stage started (requestCtx's timer)
    quiet,      \* ticks since the last successfully decoded request
    prPc,       \* processing stage: "none", "range", "wait", "done"
    task,       \* handler goroutine of each request: "none", "send", "sent", "fail"
    hres,       \* what handleRequest returned for each request: "none", "ok", "err"
    wrPc,       \* write stage: "none", "range", "done"
    written     \* responses written and flushed to the socket, in order

srvVars == <<lnState, lnOnce, lnCloses, lnRets, startPc, acc, accRes, srvCtx>>
fsVars == <<fsPc, fsSnap, fsErrs, fsPending, fsRet>>
sockVars == <<sockOpen, sockOnce, sockCloses, sockRets>>
readVars == <<rdPc, rdRes, nread, rsPc, rsReq, rsExit>>
timeVars == <<elapsed, quiet>>
procVars == <<prPc, task, hres>>
writeVars == <<wrPc, written>>
hcVars == <<hcPc, hcRet>>
vars == <<lim, srvVars, fsVars, conns, crashed, sockVars, readVars, timeVars,
          procVars, writeVars, hcVars, ctxCause>>

ConnIds == 1..lim.conns
ReqIds == 1..lim.reqs

CloseResults == {"nil", "err"}

\* the state after NewServer, before Start
InitWith(nc, nr, ns) ==
    /\ lim = [conns |-> nc, reqs |-> nr, shuts |-> ns]
    /\ lnState = "unset"
    /\ lnOnce = [done |-> FALSE, err |-> "nil"]
    /\ lnCloses = 0
    /\ lnRets = <<>>
    /\ startPc = "init"
    /\ acc = 0
    /\ accRes = "none"
    /\ srvCtx = FALSE
    /\ conns = {}
    /\ fsPc = "idle"
    /\ fsSnap = {}
    /\ fsErrs = FALSE
    /\ fsPending = [c \in ConnIds |-> {}]
    /\ fsRet = <<>>
    /\ crashed = FALSE
    /\ sockOpen = [c \in ConnIds |-> FALSE]
    /\ sockOnce = [c \in ConnIds |-> [done |-> FALSE, err |-> "nil"]]
    /\ sockCloses = [c \in ConnIds |-> 0]
    /\ sockRets = [c \in ConnIds |-> <<>>]
    /\ hcPc = [c \in ConnIds |-> "none"]
    /\ hcRet = [c \in ConnIds |-> "none"]
    /\ ctxCause = [c \in ConnIds |-> "none"]
    /\ rdPc = [c \in ConnIds |-> "none"]
    /\ rdRes = [c \in ConnIds |-> "req"]
    /\ nread = [c \in ConnIds |-> 0]
    /\ rsPc = [c \in ConnIds |-> "none"]
    /\ rsReq = [c \in ConnIds |-> 0]
    /\ rsExit = [c \in ConnIds |-> "none"]
    /\ elapsed = [c \in ConnIds |-> 0]
    /\ quiet = [c \in ConnIds |-> 0]
    /\ prPc = [c \in ConnIds |-> "none"]
    /\ task = [c \in ConnIds |-> [r \in ReqIds |-> "none"]]
    /\ hres = [c \in ConnIds |-> [r \in ReqIds |-> "none"]]
    /\ wrPc = [c \in ConnIds |-> "none"]
    /\ written = [c \in ConnIds |-> <<>>]

\* ------------------------------------------------------- once-close guards
\* onceCloseListener.Close: once.Do runs the underlying Close only the first time
ListenerCloseRuns == ~lnOnce.done

\* a guard that returned the underlying Close's result on every call
ListenerCloseErr_Fresh(e) == e

\* the error onceCloseListener.Close returns when the underlying Close would return e
ListenerCloseErr(e) == IF ListenerCloseRuns THEN e ELSE lnOnce.err

\* onceCloseListener.Close; e is what the underlying Listener.Close returns if it runs
ListenerClose(e) ==
    /\ lnRets' = Append(lnRets, ListenerCloseErr(e))
    /\ IF ListenerCloseRuns
       THEN /\ lnOnce' = [done |-> TRUE, err |-> e]
            /\ lnCloses' = lnCloses + 1
            /\ lnState' = "closed"
       ELSE UNCHANGED <<lnOnce, lnCloses, lnState>>

\* a guard without the sync.Once: every call runs the underlying Close
ConnCloseRuns_Always(c) == TRUE

\* onceCloseConn.Close: once.Do runs the underlying Close only the first time
ConnCloseRuns(c) == ~sockOnce[c].done

\* the error onceCloseConn.Close returns when the underlying Close would return e
ConnCloseErr(c, e) == IF ConnCloseRuns(c) THEN e ELSE sockOnce[c].err

\* onceCloseConn.Close; e is what the underlying Conn.Close returns if it runs
ConnClose(c, e) ==
    /\ sockRets' = [sockRets EXCEPT ![c] = Append(@, ConnCloseErr(c, e))]
    /\ IF ConnCloseRuns(c)
       THEN /\ sockOnce' = [sockOnce EXCEPT ![c] = [done |-> TRUE, err |-> e]]
            /\ sockCloses' = [sockCloses EXCEPT ![c] = @ + 1]
            /\ sockOpen' = [sockOpen EXCEPT ![c] = FALSE]
       ELSE UNCHANGED <<sockOnce, sockCloses, sockOpen>>

\* ------------------------------------------------------------ contexts
\* connCtx.Done(): cancelled by its own cancelCtx or through its parent, Start's ctx
Done(c) == ctxCause[c] # "none" \/ srvCtx

\* context.Cause(connCtx)
Cause(c) == IF ctxCause[c] # "none" THEN ctxCause[c]
            ELSE IF srvCtx THEN "canceled" ELSE "none"

\* cancelCtx(cause) of connCtx: only the first cancellation sets the cause
\* (a nil cause is recorded as context.Canceled)
CancelCause(c, cause) ==
    IF Done(c) THEN ctxCause[c] ELSE IF cause = "nil" THEN "canceled" ELSE cause

\* a read stage selecting on ctx instead of the timeout context
RequestCtxDone_NoTimeout(c) == Done(c)

\* requestCtx.Done(): the timeout context created once, before the read loop
RequestCtxDone(c) == Done(c) \/ elapsed[c] >= IdleTicks

\* ------------------------------------------------------------ Server.Start
Connected == {c \in ConnIds : hcPc[c] # "none"} \cup (IF acc = 0 THEN {} ELSE {acc})

\* net.Listen succeeds; s.listener is set
StartListen ==
    /\ ~crashed /\ startPc = "init"
    /\ startPc' = "accept"
    /\ lnState' = "open"
    /\ UNCHANGED <<lim, lnOnce, lnCloses, lnRets, acc, accRes, srvCtx, fsVars, conns, crashed, sockVars,
                   readVars, timeVars, procVars, writeVars, hcVars, ctxCause>>

\* net.Listen fails; Start returns the error
StartBindFail ==
    /\ ~crashed /\ startPc = "init"
    /\ startPc' = "bindfail"
    /\ UNCHANGED <<lim, lnState, lnOnce, lnCloses, lnRets, acc, accRes, srvCtx, fsVars, conns, crashed,
                   sockVars, readVars, timeVars, procVars, writeVars, hcVars, ctxCause>>

\* s.listener.Accept() returns a new connection
Accept(c) ==
    /\ ~crashed /\ startPc = "accept" /\ lnState = "open"
    /\ c = Cardinality(Connected) + 1
    /\ startPc' = "register"
    /\ acc' = c
    /\ accRes' = "conn"
    /\ sockOpen' = [sockOpen EXCEPT ![c] = TRUE]
    /\ UNCHANGED <<lim, lnState, lnOnce, lnCloses, lnRets, srvCtx, fsVars, conns, crashed,
                   sockOnce, sockCloses, sockRets,
                   readVars, timeVars, procVars, writeVars, hcVars, ctxCause>>

\* a loop that gives up on any Accept error
AfterAcceptError_Return == "returned"

\* where Start goes on after an Accept error that is not net.ErrClosed: the
\* error is logged and the loop continues
AfterAcceptError == "accept"

\* s.listener.Accept() fails with an error other than net.ErrClosed
AcceptErr ==
    /\ ~crashed /\ startPc = "accept" /\ lnState = "open"
    /\ accRes' = "err"
    /\ startPc' = AfterAcceptError
    /\ UNCHANGED <<lim, lnState, lnOnce, lnCloses, lnRets, acc, srvCtx, fsVars, conns,
                   crashed, sockVars, readVars, timeVars, procVars, writeVars,
                   hcVars, ctxCause>>

\* the connection is wrapped, put into s.conns and its pipeline goroutines start
Register ==
    /\ ~crashed /\ startPc = "register"
    /\ conns' = conns \cup {acc}
    /\ hcPc' = [hcPc EXCEPT ![acc] = "select"]
    /\ rdPc' = [rdPc EXCEPT ![acc] = "read"]
    /\ rsPc' = [rsPc EXCEPT ![acc] = "select"]
    /\ prPc' = [prPc EXCEPT ![acc] = "range"]
    /\ wrPc' = [wrPc EXCEPT ![acc] = "range"]
    /\ acc' = 0
    /\ startPc' = "accept"
    /\ UNCHANGED <<lim, lnState, lnOnce, lnCloses, lnRets, accRes, srvCtx, fsVars, crashed, sockVars,
                   rdRes, nread, rsReq, rsExit, timeVars, task, hres, written, hcRet,
                   ctxCause>>

\* Accept fails with net.ErrClosed: cancelCtx(), return nil, the deferred l.Close()
AcceptClosed(e) ==
    /\ ~crashed /\ startPc = "accept" /\ lnState = "closed"
    /\ srvCtx' = TRUE
    /\ ListenerClose(e)
    /\ startPc' = "returned"
    /\ accRes' = "closed"
    /\ UNCHANGED <<lim, acc, fsVars, conns, crashed, sockVars, readVars, timeVars,
                   procVars, writeVars, hcVars, ctxCause>>

\* ------------------------------------------------- ForceShutdown / Shutdown
\* ForceShutdown's entry: s.listener.Close(); an error is returned at once, else
\* the range starts. With s.listener still nil the method call panics.
FSBegin(e) ==
    /\ ~crashed /\ fsPc = "idle" /\ Len(fsRet) < lim.shuts
    /\ IF lnState = "unset"
       THEN /\ crashed' = TRUE
            /\ UNCHANGED <<lnState, lnOnce, lnCloses, lnRets, fsVars>>
       ELSE /\ ListenerClose(e)
            /\ IF ListenerCloseErr(e) # "nil"
               THEN /\ fsRet' = Append(fsRet, "err")
                    /\ UNCHANGED <<fsPc, fsSnap, fsErrs, fsPending>>
               ELSE /\ fsPc' = "loop"
                    /\ fsSnap' = conns
                    /\ fsErrs' = FALSE
                    /\ fsPending' = [c \in ConnIds |->
                                        {r \in ReqIds : task[c][r] = "send"}]
                    /\ UNCHANGED fsRet
            /\ UNCHANGED crashed
    /\ UNCHANGED <<lim, startPc, acc, accRes, srvCtx, conns, sockVars, readVars, timeVars,
                   procVars, writeVars, hcVars, ctxCause>>

\* Shutdown: `return s.ForceShutdown()`
Shutdown(e) == FSBegin(e)

\* one iteration of `for conn := range s.conns`: conn.Close() (an error is only
\* logged) and delete(s.conns, conn). An entry added during the range may or may
\* not be produced.
FSIter(c, e) ==
    /\ ~crashed /\ fsPc = "loop" /\ c \in conns
    /\ ConnClose(c, e)
    /\ conns' = conns \ {c}
    /\ fsErrs' = (fsErrs \/ ConnCloseErr(c, e) # "nil")
    /\ UNCHANGED <<lim, srvVars, fsPc, fsSnap, fsPending, fsRet, crashed, readVars, timeVars,
                   procVars, writeVars, hcVars, ctxCause>>

\* the range is over (every entry present when it began was produced): return nil
FSReturn ==
    /\ ~crashed /\ fsPc = "loop" /\ fsSnap \cap conns = {}
    /\ fsPc' = "idle"
    /\ fsRet' = Append(fsRet, "nil")
    /\ fsSnap' = {}
    /\ fsPending' = [c \in ConnIds |-> {}]
    /\ UNCHANGED fsErrs
    /\ UNCHANGED <<lim, srvVars, conns, crashed, sockVars, readVars, timeVars,
                   procVars, writeVars, hcVars, ctxCause>>

\* ------------------------------------------------- reader (createReadRequestChan)
\* what the blocking encoders.ReadRequest can return
ReadResults(c) ==
    IF sockOpen[c]
    THEN {"eof", "bad"} \cup (IF nread[c] < lim.reqs THEN {"req"} ELSE {})
    ELSE {"closed"}

\* encoders.ReadRequest returns a request or an error
RdRead(c, res) ==
    /\ ~crashed /\ rdPc[c] = "read"
    /\ res \in ReadResults(c)
    /\ rdPc' = [rdPc EXCEPT ![c] = "send"]
    /\ rdRes' = [rdRes EXCEPT ![c] = res]
    /\ nread' = [nread EXCEPT ![c] = IF res = "req" THEN @ + 1 ELSE @]
    /\ UNCHANGED <<lim, srvVars, fsVars, conns, crashed, sockVars, rsPc, rsReq, rsExit,
                   timeVars, procVars, writeVars, hcVars, ctxCause>>

\* ------------------------------------------------- read stage (createRequestChan)
\* time passes while the read stage runs; requestCtx's timer is never reset
Tick(c) ==
    /\ ~crashed /\ rsPc[c] \in {"select", "fwd"}
    /\ elapsed[c] < IdleTicks
    /\ elapsed' = [elapsed EXCEPT ![c] = @ + 1]
    /\ quiet' = [quiet EXCEPT ![c] = IF @ < IdleTicks THEN @ + 1 ELSE @]
    /\ UNCHANGED <<lim, srvVars, fsVars, conns, crashed, sockVars, readVars,
                   procVars, writeVars, hcVars, ctxCause>>

\* case <-requestCtx.Done(): return; the deferred calls close errChan and requestChan
RsCtxDone(c) ==
    /\ ~crashed /\ rsPc[c] = "select"
    /\ RequestCtxDone(c)
    /\ rsPc' = [rsPc EXCEPT ![c] = "done"]
    /\ rsExit' = [rsExit EXCEPT ![c] = IF Done(c) THEN "cancel" ELSE "timeout"]
    /\ UNCHANGED <<lim, srvVars, fsVars, conns, crashed, sockVars, rdPc, rdRes, nread,
                   rsReq, timeVars, procVars, writeVars, hcVars, ctxCause>>

\* case result := <-readRequestChan
RsRecv(c) ==
    /\ ~crashed /\ rsPc[c] = "select" /\ rdPc[c] = "send"
    /\ IF rdRes[c] = "req"
       THEN /\ rsPc' = [rsPc EXCEPT ![c] = "fwd"]
            /\ rsReq' = [rsReq EXCEPT ![c] = nread[c]]
            /\ rdPc' = [rdPc EXCEPT ![c] = "read"]
            /\ quiet' = [quiet EXCEPT ![c] = 0]
            /\ UNCHANGED rsExit
       ELSE /\ rdPc' = [rdPc EXCEPT ![c] = "done"]
            /\ IF rdRes[c] \in {"eof", "closed"}
               THEN /\ rsPc' = [rsPc EXCEPT ![c] = "done"]
                    /\ rsExit' = [rsExit EXCEPT ![c] = "eof"]
               ELSE /\ rsPc' = [rsPc EXCEPT ![c] = "senderr"]
                    /\ UNCHANGED rsExit
            /\ UNCHANGED <<rsReq, quiet>>
    /\ UNCHANGED <<lim, srvVars, fsVars, conns, crashed, sockVars, rdRes, nread, elapsed,
                   procVars, writeVars, hcVars, ctxCause>>

\* ------------------------------------------------- processing (createResponseChan)
HandlerResults == {"ok", "err"}

\* a handler goroutine that sent its response whatever handleRequest returned
Dispatched_AlwaysSend(h) == "send"

\* the handler goroutine: a response is sent on responseChan, an error only logged
Dispatched(h) == IF h = "ok" THEN "send" ELSE "fail"

\* `for request := range requestChan` receives what the read stage forwards:
\* with ctx done the stage returns (and closes responseChan), else it starts a
\* handler goroutine whose handleRequest returns h
PrRecv(c, h) ==
    /\ ~crashed /\ prPc[c] = "range" /\ rsPc[c] = "fwd"
    /\ rsPc' = [rsPc EXCEPT ![c] = "select"]
    /\ IF Done(c)
       THEN /\ prPc' = [prPc EXCEPT ![c] = "done"]
            /\ UNCHANGED <<task, hres>>
       ELSE /\ task' = [task EXCEPT ![c][rsReq[c]] = Dispatched(h)]
            /\ hres' = [hres EXCEPT ![c][rsReq[c]] = h]
            /\ UNCHANGED prPc
    /\ UNCHANGED <<lim, srvVars, fsVars, conns, crashed, sockVars, rdPc, rdRes, nread,
                   rsReq, rsExit, timeVars, writeVars, hcVars, ctxCause>>

\* requestChan is closed: the range ends and the stage waits in wg.Wait()
PrClosed(c) ==
    /\ ~crashed /\ prPc[c] = "range" /\ rsPc[c] = "done"
    /\ prPc' = [prPc EXCEPT ![c] = "wait"]
    /\ UNCHANGED <<lim, srvVars, fsVars, conns, crashed, sockVars, readVars, timeVars,
                   task, hres, writeVars, hcVars, ctxCause>>

\* wg.Wait() returns once every handler goroutine is done; responseChan is closed
PrWaitDone(c) ==
    /\ ~crashed /\ prPc[c] = "wait"
    /\ \A r \in ReqIds : task[c][r] # "send"
    /\ prPc' = [prPc EXCEPT ![c] = "done"]
    /\ UNCHANGED <<lim, srvVars, fsVars, conns, crashed, sockVars, readVars, timeVars,
                   task, hres, writeVars, hcVars, ctxCause>>

\* a handler goroutine sends on the closed responseChan: panic
TaskPanic(c, r) ==
    /\ ~crashed /\ task[c][r] = "send" /\ prPc[c] = "done"
    /\ crashed' = TRUE
    /\ UNCHANGED <<lim, srvVars, fsVars, conns, sockVars, readVars, timeVars,
                   procVars, writeVars, hcVars, ctxCause>>

\* ------------------------------------------------- write stage (sendResponses)
WriteResults == {"ok", "err"}

\* `for bytes := range responseChan` receives the response of request r: with ctx
\* done it returns nil, else it writes and flushes (w: the outcome on an open
\* socket); on return the goroutine calls cancelCtx(err)
WrRecv(c, r, w) ==
    /\ ~crashed /\ wrPc[c] = "range" /\ prPc[c] # "done"
    /\ task[c][r] = "send"
    /\ task' = [task EXCEPT ![c][r] = "sent"]
    /\ IF Done(c)
       THEN /\ wrPc' = [wrPc EXCEPT ![c] = "done"]
            /\ UNCHANGED <<written, ctxCause>>
       ELSE IF w = "ok" /\ sockOpen[c]
       THEN /\ written' = [written EXCEPT ![c] = Append(@, r)]
            /\ UNCHANGED <<wrPc, ctxCause>>
       ELSE /\ wrPc' = [wrPc EXCEPT ![c] = "done"]
            /\ ctxCause' = [ctxCause EXCEPT ![c] = CancelCause(c, "writeErr")]
            /\ UNCHANGED written
    /\ UNCHANGED <<lim, srvVars, fsVars, conns, crashed, sockVars, readVars, timeVars,
                   prPc, hres, hcVars>>

\* responseChan is closed: sendResponses returns nil, then cancelCtx(nil)
WrClosed(c) ==
    /\ ~crashed /\ wrPc[c] = "range" /\ prPc[c] = "done"
    /\ wrPc' = [wrPc EXCEPT ![c] = "done"]
    /\ ctxCause' = [ctxCause EXCEPT ![c] = CancelCause(c, "nil")]
    /\ UNCHANGED <<lim, srvVars, fsVars, conns, crashed, sockVars, readVars, timeVars,
                   procVars, written, hcVars>>

\* ------------------------------------------------- handleConnection
\* what follows either case of the select: the deferred cancelCtx(nil) and
\* conn.Close() (e: what the underlying Close returns), then return ret
HCReturn(c, ret, e) ==
    /\ hcPc' = [hcPc EXCEPT ![c] = "delete"]
    /\ hcRet' = [hcRet EXCEPT ![c] = ret]
    /\ ConnClose(c, e)

\* case <-connCtx.Done(): return the cause
HCDone(c, e) ==
    /\ ~crashed /\ hcPc[c] = "select"
    /\ Done(c)
    /\ HCReturn(c, Cause(c), e)
    /\ UNCHANGED <<lim, srvVars, fsVars, conns, crashed, readVars, timeVars,
                   procVars, writeVars, ctxCause>>

\* case err := <-requestErrChan, the read stage sending a decode error
HCRecvErr(c, e) ==
    /\ ~crashed /\ hcPc[c] = "select"
    /\ rsPc[c] = "senderr"
    /\ rsPc' = [rsPc EXCEPT ![c] = "done"]
    /\ rsExit' = [rsExit EXCEPT ![c] = "error"]
    /\ ctxCause' = [ctxCause EXCEPT ![c] = CancelCause(c, "decodeErr")]
    /\ HCReturn(c, "decodeErr", e)
    /\ UNCHANGED <<lim, srvVars, fsVars, conns, crashed, rdPc, rdRes, nread, rsReq,
                   timeVars, procVars, writeVars>>

\* case err := <-requestErrChan on the closed channel: err is nil
HCErrClosed(c, e) ==
    /\ ~crashed /\ hcPc[c] = "select"
    /\ rsPc[c] = "done"
    /\ ctxCause' = [ctxCause EXCEPT ![c] = CancelCause(c, "nil")]
    /\ HCReturn(c, "nil", e)
    /\ UNCHANGED <<lim, srvVars, fsVars, conns, crashed, readVars, timeVars,
                   procVars, writeVars>>

\* back in Start's goroutine: delete(s.conns, conn)
HCDelete(c) ==
    /\ ~crashed /\ hcPc[c] = "delete"
    /\ hcPc' = [hcPc EXCEPT ![c] = "done"]
    /\ conns' = conns \ {c}
    /\ UNCHANGED <<lim, srvVars, fsVars, crashed, sockVars, readVars, timeVars,
                   procVars, writeVars, hcRet, ctxCause>>

\* ------------------------------------------------- the unsynchronized s.conns
\* the tasks that are at an access of s.conns: Start at its insert,
\* ForceShutdown inside its range (with its deletes), a connection's goroutine
\* at its delete. Nothing in the code orders them.
\* (0 stands for Start, -1 for ForceShutdown, c for connection c's goroutine)
MapAccessors ==
    (IF startPc = "register" THEN {0} ELSE {})
    \cup (IF fsPc = "loop" THEN {-1} ELSE {})
    \cup {c \in ConnIds : hcPc[c] = "delete"}

\* two accesses of the map overlap and the Go runtime stops the process
\* ("fatal error: concurrent map writes" / "concurrent map iteration and map
\* write"); the other outcome of the race is that each access takes effect
MapFatal ==
    /\ ~crashed /\ Cardinality(MapAccessors) >= 2
    /\ crashed' = TRUE
    /\ UNCHANGED <<lim, srvVars, fsVars, conns, sockVars, readVars, timeVars,
                   procVars, writeVars, hcVars, ctxCause>>

\* ------------------------------------------------- specification
Next ==
    \/ StartListen
    \/ StartBindFail
    \/ \E c \in ConnIds : Accept(c)
    \/ AcceptErr
    \/ MapFatal
    \/ Register
    \/ \E e \in CloseResults : AcceptClosed(e)
    \/ \E e \in CloseResults : FSBegin(e)
    \/ \E e \in CloseResults : Shutdown(e)
    \/ \E c \in ConnIds, e \in CloseResults : FSIter(c, e)
    \/ FSReturn
    \/ \E c \in ConnIds, res \in {"req", "eof", "bad", "closed"} : RdRead(c, res)
    \/ \E c \in ConnIds : Tick(c)
    \/ \E c \in ConnIds : RsCtxDone(c)
    \/ \E c \in ConnIds : RsRecv(c)
    \/ \E c \in ConnIds, h \in HandlerResults : PrRecv(c, h)
    \/ \E c \in ConnIds : PrClosed(c)
    \/ \E c \in ConnIds : PrWaitDone(c)
    \/ \E c \in ConnIds, r \in ReqIds : TaskPanic(c, r)
    \/ \E c \in ConnIds, r \in ReqIds, w \in WriteResults : WrRecv(c, r, w)
    \/ \E c \in ConnIds : WrClosed(c)
    \/ \E c \in ConnIds, e \in CloseResults : HCDone(c, e)
    \/ \E c \in ConnIds, e \in CloseResults : HCRecvErr(c, e)
    \/ \E c \in ConnIds, e \in CloseResults : HCErrClosed(c, e)
    \/ \E c \in ConnIds : HCDelete(c)

\* one connection's pipeline under the server
Init == InitWith(1, MaxReq, PipeShutdowns)

Spec == Init /\ [][Next]_vars

\* the server's lifecycle: repeated shutdown calls
InitServer == InitWith(1, MaxReq, MaxShutdowns)

SpecServer == InitServer /\ [][Next]_vars

\* two connections served side by side while no shutdown is called: the steps
\* of Start's loop and of the pipelines that can be taken when ForceShutdown
\* never runs and the clock does not advance
NextIso ==
    \/ StartListen
    \/ StartBindFail
    \/ \E c \in ConnIds : Accept(c)
    \/ AcceptErr
    \/ MapFatal
    \/ Register
    \/ \E c \in ConnIds, res \in {"req", "eof", "bad", "closed"} : RdRead(c, res)
    \/ \E c \in ConnIds : RsCtxDone(c)
    \/ \E c \in ConnIds : RsRecv(c)
    \/ \E c \in ConnIds, h \in HandlerResults : PrRecv(c, h)
    \/ \E c \in ConnIds : PrClosed(c)
    \/ \E c \in ConnIds : PrWaitDone(c)
    \/ \E c \in ConnIds, r \in ReqIds, w \in WriteResults : WrRecv(c, r, w)
    \/ \E c \in ConnIds : WrClosed(c)
    \/ \E c \in ConnIds, e \in CloseResults : HCDone(c, e)
    \/ \E c \in ConnIds, e \in CloseResults : HCRecvErr(c, e)
    \/ \E c \in ConnIds, e \in CloseResults : HCErrClosed(c, e)
    \/ \E c \in ConnIds : HCDelete(c)

InitIso == InitWith(IsoConns, IsoReq, 0)

SpecIso == InitIso /\ [][NextIso]_vars

\* goroutines are scheduled fairly: a step of the server that stays possible is
\* taken. What the peer sends, when clients connect, when time passes and when
\* a shutdown is called are left to the environment.
ServerStep ==
    \/ Register
    \/ \E e \in CloseResults : AcceptClosed(e)
    \/ \E c \in ConnIds, e \in CloseResults : FSIter(c, e)
    \/ FSReturn
    \/ \E c \in ConnIds : RdRead(c, "closed")
    \/ \E c \in ConnIds : RsCtxDone(c)
    \/ \E c \in ConnIds : RsRecv(c)
    \/ \E c \in ConnIds, h \in HandlerResults : PrRecv(c, h)
    \/ \E c \in ConnIds : PrClosed(c)
    \/ \E c \in ConnIds : PrWaitDone(c)
    \/ \E c \in ConnIds, r \in ReqIds : TaskPanic(c, r)
    \/ \E c \in ConnIds, r \in ReqIds, w \in WriteResults : WrRecv(c, r, w)
    \/ \E c \in ConnIds : WrClosed(c)
    \/ \E c \in ConnIds, e \in CloseResults : HCDone(c, e)
    \/ \E c \in ConnIds, e \in CloseResults : HCRecvErr(c, e)
    \/ \E c \in ConnIds, e \in CloseResults : HCErrClosed(c, e)
    \/ \E c \in ConnIds : HCDelete(c)

SpecLive == Spec /\ WF_vars(ServerStep)

\* the connection of Spec and SpecLive
PipeConns == {1}

Range(q) == {q[i] : i \in 1..Len(q)}

\* ================================================================ claims

\* C1: on one connection the responses are written in the order in which their
\* requests were read, whatever the completion order of the handler goroutines.
C1_ResponsesInRequestOrder ==
    \A c \in ConnIds : \A i, j \in 1..Len(written[c]) :
        i < j => written[c][i] < written[c][j]

\* C2: no response is ever written for a request whose handler returned an error;
\* the failure changes nothing else of the pipeline (it neither cancels it nor
\* stops a stage), and the response of a later request whose handler succeeded
\* is still written, unless the pipeline is cancelled for another reason.
C2_HandlerErrorIsLocal ==
    /\ [](\A c \in PipeConns, k \in 1..MaxReq :
            k \in DOMAIN hres[c] /\ hres[c][k] = "err" => k \notin Range(written[c]))
    /\ [][\A c \in PipeConns, k \in 1..MaxReq :
            (hres[c][k] = "none" /\ hres'[c][k] = "err")
            => /\ ctxCause' = ctxCause /\ prPc' = prPc /\ wrPc' = wrPc
               /\ written' = written /\ hcPc' = hcPc /\ sockOpen' = sockOpen
               /\ \A r \in 1..MaxReq : r # k => task'[c][r] = task[c][r]]_vars
    /\ \A c \in PipeConns :
          \A p \in {q \in (1..MaxReq) \X (1..MaxReq) : q[1] < q[2]} :
             (hres[c][p[1]] = "err" /\ task[c][p[2]] = "send")
             ~> (p[2] \in Range(written[c]) \/ Done(c))

\* C2's case: request 1 failed, and the response of request 2 was written
C2_Witness ==
    \E c \in ConnIds : hres[c][1] = "err" /\ written[c] = <<2>>

\* C3: the idle timeout ends the read stage only when no request was decoded
\* for the whole idle timeout.
C3_TimeoutOnlyWhenQuiet ==
    \A c \in ConnIds : rsExit[c] = "timeout" => quiet[c] >= IdleTicks

\* C4: once the idle timeout has elapsed on an accepted connection on which no
\* request was sent, the server closes the socket, handleConnection returns and
\* the registry entry is removed. (A process that the runtime stopped has ended
\* the pipeline and released the socket as well: the last disjunct.)
C4_IdleConnectionIsClosed ==
    \A c \in PipeConns :
        (hcPc[c] # "none" /\ elapsed[c] >= IdleTicks /\ nread[c] = 0)
        ~> (\/ hcPc[c] = "done" /\ ~sockOpen[c] /\ sockOnce[c].done /\ c \notin conns
            \/ nread[c] > 0
            \/ crashed)

\* C4's case: the idle timeout, and nothing else, ended an unused connection
C4_Witness ==
    \E c \in ConnIds :
        /\ rsExit[c] = "timeout" /\ nread[c] = 0 /\ rdPc[c] = "read"
        /\ lnState = "open" /\ fsRet = <<>>
        /\ hcPc[c] = "done" /\ ~sockOpen[c] /\ c \notin conns

\* a call of ForceShutdown/Shutdown returns in this step
FSReturns == Len(fsRet') > Len(fsRet)

\* the registry as it was when the returning call was made
FSAtCall == IF fsPc = "loop" THEN fsSnap ELSE conns

\* a pipeline is Closed: its read, processing and write stages have stopped and
\* its socket is closed
PipelineClosed(c) ==
    /\ rsPc[c] = "done" /\ prPc[c] = "done" /\ wrPc[c] = "done"
    /\ \A r \in ReqIds : task[c][r] # "send"
    /\ ~sockOpen[c]

\* C5: when ForceShutdown returns without error, the registry is empty and no
\* accepted connection is left open.
C5_ForceShutdownLeavesNothing ==
    [][(FSReturns /\ fsRet'[Len(fsRet')] = "nil")
       => (conns' = {} /\ \A c \in ConnIds : ~sockOpen'[c])]_vars

\* C6: Shutdown returns only after every pipeline registered when it was called
\* has reached Closed.
C6_ShutdownWaitsForPipelines ==
    [][(FSReturns /\ fsRet'[Len(fsRet')] = "nil")
       => \A c \in FSAtCall : PipelineClosed(c)']_vars

\* C7: Shutdown closes a connection's socket only after the responses that were
\* waiting to be written when Shutdown was called have been written.
C7_ShutdownFlushesDispatched ==
    [][\A c \in ConnIds :
         (fsPc = "loop" /\ sockOpen[c] /\ ~sockOpen'[c] /\ hcPc'[c] = hcPc[c])
         => \A r \in fsPending[c] : task[c][r] # "send"]_vars

\* C8 as stated: the second ForceShutdown, and a Close of an already closed
\* connection, never return an error.
C8_SecondCallNeverErrs ==
    /\ Len(fsRet) >= 2 => fsRet[2] = "nil"
    /\ \A c \in ConnIds : \A i \in 2..Len(sockRets[c]) : sockRets[c][i] = "nil"

\* C8 as amended: the second ForceShutdown, and a Close of an already closed
\* connection, return an error exactly when the first close of that socket
\* failed (the first close's result is returned again).
C8_SecondCallRepeatsFirst ==
    /\ Len(fsRet) >= 2 => (fsRet[2] = "err" <=> lnRets[1] = "err")
    /\ \A c \in ConnIds : \A i \in 2..Len(sockRets[c]) :
          sockRets[c][i] = "err" <=> sockRets[c][1] = "err"

\* C8's case: ForceShutdown was called twice and a closed connection closed again
C8_Witness ==
    /\ Len(fsRet) = 2 /\ fsRet[2] = "nil"
    /\ \E c \in ConnIds : Len(sockRets[c]) = 2 /\ sockRets[c][2] = "nil"

\* C9: the underlying Close of the listening socket and of every accepted socket
\* runs at most once, and every later Close call returns what the first returned.
C9_UnderlyingCloseAtMostOnce ==
    /\ lnCloses <= 1
    /\ \A i \in 2..Len(lnRets) : lnRets[i] = lnRets[1]
    /\ \A c \in ConnIds :
          /\ sockCloses[c] <= 1
          /\ \A i \in 2..Len(sockRets[c]) : sockRets[c][i] = sockRets[c][1]

\* C9's case: both sockets were closed again, the connection after a first
\* Close that failed
C9_Witness ==
    /\ lnCloses = 1 /\ Len(lnRets) >= 2
    /\ \E c \in ConnIds :
          sockCloses[c] = 1 /\ Len(sockRets[c]) = 2 /\ sockRets[c][1] = "err"

\* C10: a returning shutdown has closed every connection registered when it was
\* called, also when closing the listener failed, and it returns an error when
\* closing the listener or a connection failed.
C10_ShutdownClosesAllAndReports ==
    [][FSReturns
       => /\ \A c \in FSAtCall : ~sockOpen'[c]
          /\ fsRet'[Len(fsRet')] = "nil" => (~fsErrs' /\ lnOnce'.err = "nil")]_vars

\* C11: whatever failure ends one connection's pipeline, the server process
\* keeps running, so that the accept loop and the other connections go on.
C11_ConnectionFailureIsLocal ==
    \A c \in ConnIds : hcRet[c] # "none" => ~crashed

\* C12: an Accept error that is not "listener closed" leaves the listener open
\* and Start in its loop; Start leaves the loop only with a connection to
\* register or, returning nil, when Accept failed on the closed listener.
C12_StartReturnsOnlyOnClosedListener ==
    [][/\ (accRes # "err" /\ accRes' = "err")
            => (startPc' = "accept" /\ lnState' = "open" /\ conns' = conns)
       /\ (startPc = "accept" /\ startPc' # "accept")
            => \/ startPc' = "register" /\ accRes' = "conn" /\ lnState = "open"
               \/ startPc' = "returned" /\ accRes' = "closed" /\ lnState = "closed"]_vars

\* C12's case: Accept failed with the listener open and Start is accepting still,
\* the connection it registered before being served
C12_Witness ==
    /\ accRes = "err" /\ startPc = "accept" /\ lnState = "open"
    /\ \E c \in ConnIds : c \in conns /\ hcPc[c] = "select"

\* C13: no two tasks are at an access of the connection registry at the same
\* time.
C13_RegistryAccessesNeverOverlap ==
    Cardinality(MapAccessors) <= 1

\* every goroutine of connection c's pipeline has ended
SubTasksStopped(c) ==
    /\ rdPc[c] = "done" /\ rsPc[c] = "done" /\ prPc[c] = "done" /\ wrPc[c] = "done"
    /\ \A r \in ReqIds : task[c][r] # "send"

\* C14: after a pipeline ended with its terminal cause, the frame reader, the
\* read stage, the processing stage, every handler task and the write stage
\* eventually end (the process being stopped ends them too).
C14_SubTasksTerminate ==
    \A c \in PipeConns : (hcRet[c] # "none") ~> (crashed \/ SubTasksStopped(c))

\* C15: when the processing stage has closed the response channel, no handler
\* task it dispatched is sending or waiting to send on that channel.
C15_ResponseChanClosedAfterHandlers ==
    \A c \in ConnIds : prPc[c] = "done" => \A r \in ReqIds : task[c][r] # "send"

\* C16: once the pipeline's context is cancelled, the read stage hands no
\* request to the processing stage, no handler task is started, and the
\* processing stage ends only when the handler tasks it started have ended.
C16_CancelStopsIntake ==
    [][\A c \in ConnIds : Done(c) =>
          /\ ~(rsPc[c] = "fwd" /\ rsPc'[c] # "fwd")
          /\ \A r \in ReqIds : task[c][r] = "none" => task'[c][r] = "none"
          /\ (prPc[c] # "done" /\ prPc'[c] = "done")
                => \A r \in ReqIds : task'[c][r] # "send"]_vars

\* C17: when a connection's goroutine deletes its registry entry, the read
\* stage, the processing stage with its handler tasks and the write stage have
\* stopped and the socket is closed.
C17_EntryRemovedAfterPipelineEnded ==
    [][\A c \in ConnIds : (hcPc[c] = "delete" /\ hcPc'[c] = "done")
                              => PipelineClosed(c)]_vars

\* C18: a pipeline that the idle timeout ended, with no request read and no
\* shutdown called, reports a cause that is neither the nil of a peer
\* disconnect nor the cancellation of a shutdown.
C18_TimeoutCauseIsDistinct ==
    \A c \in ConnIds :
        (rsExit[c] = "timeout" /\ nread[c] = 0 /\ lnState = "open" /\ hcRet[c] # "none")
        => hcRet[c] \notin {"nil", "canceled"}

\* C19: when the read stage stopped on end-of-stream, handleConnection reports
\* no error, and once the server has closed the socket (no shutdown called, no
\* write failed) the response of every request read whose handler succeeded
\* has been written.
C19_EndOfStreamFlushesResponses ==
    \A c \in ConnIds :
        (rsExit[c] = "eof" /\ lnState = "open" /\ hcRet[c] # "none"
            /\ ctxCause[c] = "canceled")
        => /\ hcRet[c] \in {"nil", "canceled"}
           /\ ~sockOpen[c] => \A r \in 1..nread[c] :
                                  hres[c][r] # "err" => r \in Range(written[c])

\* C20: a call of ForceShutdown or Shutdown made before Start has set the
\* listener returns without a fault.
C20_ShutdownBeforeStartIsSafe ==
    lnState = "unset" => ~crashed

====
